---- MODULE Spec2Model ----
(***************************************************************************)
(* Model of the Sudoku dashboard (sudoku_dashboard.py).                    *)
(*                                                                         *)
(* The dashboard is a Streamlit script: every user interaction re-runs     *)
(* main() from top to bottom against st.session_state.  One step of the    *)
(* model is one complete run of main() after the one widget the user       *)
(* touched; the tabs run in the order main() calls them.                   *)
(*                                                                         *)
(* The solver library (SudokuMIPSolver) is outside the repository; its     *)
(* operations are modelled from the contract the dashboard relies on.      *)
(***************************************************************************)
EXTENDS Integers, Sequences, FiniteSets, TLC

(***************************************************************************)
(* Bounds of the model and constants of the program                        *)
(***************************************************************************)
\* get_grid_dimensions: min_value and value (the default) of both inputs
MIN_DIM == 2
DEFAULT_DIM == 3
\* get_grid_dimensions: max_value of both inputs
MAX_DIM == 6
\* solve_options_section: the default of "Maximum Solutions:"
DEFAULT_MAX_SOLUTIONS == 10

\* widest sub-grid the user selects in the model (the program allows 6)
MaxSubGridWidth == 3
\* largest cap, besides the default, the user types into "Maximum Solutions:"
MaxCap == 2
\* largest number of solutions a modelled puzzle has
MaxSolutions == 2
\* largest elapsed time, in clock ticks, a timed call takes
MaxTime == 1

\* the user edits the manual cells of rows and columns up to this one
MaxEditIndex == 1

SubGridWidths == MIN_DIM..MaxSubGridWidth
\* the user leaves the sub-grid height at its default
SubGridHeights == {DEFAULT_DIM}
GridSizes == {w * h : w \in SubGridWidths, h \in SubGridHeights}
Caps == (1..MaxCap) \cup {DEFAULT_MAX_SOLUTIONS}
Times == 1..MaxTime

(***************************************************************************)
(* Python values                                                           *)
(***************************************************************************)
\* a key that is not in st.session_state / a key holding a value
Absent == <<>>
Some(x) == <<x>>
Get(opt) == opt[1]
\* the None held by a board cell or a number input
NoneCell == -1

Min(a, b) == IF a < b THEN a ELSE b

\* The(S) is the element of a one-element set; {F(x) : x \in {e}} applies F
\* to the value of e
The(S) == CHOOSE x \in S : TRUE

(***************************************************************************)
(* Text: a Python str is a sequence of one-character strings               *)
(***************************************************************************)
Whitespace == {" ", "\n"}

RECURSIVE lstrip(_)
lstrip(text) ==
    IF text # <<>> /\ Head(text) \in Whitespace THEN lstrip(Tail(text)) ELSE text

RECURSIVE rstrip(_)
rstrip(text) ==
    IF text # <<>> /\ text[Len(text)] \in Whitespace
    THEN rstrip(SubSeq(text, 1, Len(text) - 1))
    ELSE text

\* str.strip()
strip(text) == rstrip(lstrip(text))

\* the symbols of the library's string format: symbol k stands for the value k
Symbols == <<"1", "2", "3", "4", "5", "6", "7", "8", "9",
             "A", "B", "C", "D", "E", "F", "G", "H", "I", "J", "K", "L", "M",
             "N", "O", "P", "Q", "R", "S", "T", "U", "V", "W", "X", "Y", "Z">>
EmptySymbols == {"0", "."}

SymbolValue(ch) ==
    IF ch \in EmptySymbols THEN NoneCell
    ELSE CHOOSE k \in 1..Len(Symbols) : Symbols[k] = ch

IsSymbol(ch, grid_size) ==
    \/ ch \in EmptySymbols
    \/ \E k \in 1..grid_size : k <= Len(Symbols) /\ Symbols[k] = ch

(***************************************************************************)
(* Boards: a list of rows, each a list of cells (NoneCell or a value)      *)
(***************************************************************************)
Indices(grid_size) == 1..grid_size

EmptyBoard(grid_size) ==
    [i \in Indices(grid_size) |-> [j \in Indices(grid_size) |-> NoneCell]]

(***************************************************************************)
(* What the user types and uploads, and what the generator hands out, in   *)
(* the model                                                               *)
(***************************************************************************)
\* a puzzle string for a grid size: first symbol given, then "2", then "0"s
PuzzleText(grid_size, first) ==
    [k \in 1..(grid_size * grid_size) |->
        IF k = 1 THEN first ELSE IF k = 2 THEN "2" ELSE "0"]

\* typed into the text area: a puzzle of the default grid size, written
\* with a leading blank and a "." (it does not parse at another size)
TypedTexts == {<<" ">> \o PuzzleText(DEFAULT_DIM * DEFAULT_DIM, ".")}

\* uploaded: a puzzle file of the smallest grid size, ending in a newline
\* (it does not parse at another size)
FileTexts == {PuzzleText(MIN_DIM * DEFAULT_DIM, "3") \o <<"\n">>}

\* the boards generate_random_puzzle hands out, one per grid size: one clue
GeneratedBoards ==
    [g \in GridSizes |-> [EmptyBoard(g) EXCEPT ![1][1] = 1]]

(***************************************************************************)
(* hash(content)                                                           *)
(***************************************************************************)
\* the characters the modelled texts are written with
Characters == <<"0", ".", " ", "\n", "x">> \o Symbols
Ord(ch) == CHOOSE k \in 1..Len(Characters) : Characters[k] = ch

HASH_BASE == 31
HASH_MODULUS == 1000003

\* the hash of text[lo..hi], mixed from the hashes of its two halves
RECURSIVE hash_of(_, _, _)
hash_of(text, lo, hi) ==
    IF lo > hi THEN 0
    ELSE IF lo = hi THEN Ord(text[lo])
    ELSE LET mid == (lo + hi) \div 2 IN
         (hash_of(text, lo, mid) * HASH_BASE + hash_of(text, mid + 1, hi)
             + (hi - lo)) % HASH_MODULUS

\* the hashes of the files of the model, computed once
FileHashes == [text \in FileTexts |-> hash_of(text, 1, Len(text))]

\* hash(content): Python's str hash is a fixed function of the characters
\* within one process; this mixing function stands for it (equal texts hash
\* equal, and the texts of the model hash apart)
hash(text) ==
    IF text \in FileTexts THEN FileHashes[text] ELSE hash_of(text, 1, Len(text))

\* the key of a manual cell is not in st.session_state
Missing == -2

(***************************************************************************)
(* The solver library, from the contract the dashboard uses                *)
(***************************************************************************)
\* A SudokuMIPSolver object.  nsol is the number of solutions its puzzle
\* has (fixed when the object is made, at most MaxSolutions in the model);
\* cuts is the number of solutions that cuts added by find_all_solutions
\* still exclude from the MIP model.
NewSolver(board, sub_grid_width, sub_grid_height, nsol) ==
    [board |-> board, sub_grid_width |-> sub_grid_width,
     sub_grid_height |-> sub_grid_height, nsol |-> nsol, cuts |-> 0]

\* what the constructor accepts: a square board of the grid size whose cells
\* are empty or a value of 1..grid_size
ValidBoard(board, sub_grid_width, sub_grid_height) ==
    LET grid_size == sub_grid_width * sub_grid_height IN
    /\ Len(board) = grid_size
    /\ \A i \in 1..grid_size :
          /\ Len(board[i]) = grid_size
          /\ \A j \in 1..grid_size :
                board[i][j] = NoneCell \/ board[i][j] \in 1..grid_size

\* SudokuMIPSolver(board, w, h): Absent stands for a raised exception
SudokuMIPSolver(board, sub_grid_width, sub_grid_height, nsol) ==
    IF ValidBoard(board, sub_grid_width, sub_grid_height)
    THEN Some(NewSolver(board, sub_grid_width, sub_grid_height, nsol))
    ELSE Absent

\* SudokuMIPSolver.from_string(text, w, h): the text holds grid_size^2
\* symbols, row by row, "0" or "." for an empty cell
from_string(text, sub_grid_width, sub_grid_height, nsol) ==
    LET grid_size == sub_grid_width * sub_grid_height IN
    IF /\ Len(text) = grid_size * grid_size
       /\ \A k \in 1..Len(text) : IsSymbol(text[k], grid_size)
    THEN SudokuMIPSolver(
             [i \in 1..grid_size |-> [j \in 1..grid_size |->
                 SymbolValue(text[(i - 1) * grid_size + j])]],
             sub_grid_width, sub_grid_height, nsol)
    ELSE Absent

\* the canonical string of a board: its cells row by row, "0" for empty
board_string(board) ==
    LET grid_size == Len(board) IN
    [k \in 1..(grid_size * grid_size) |->
        LET v == board[((k - 1) \div grid_size) + 1][((k - 1) % grid_size) + 1] IN
        IF v = NoneCell \/ v = 0 THEN "0" ELSE Symbols[v]]

\* the strings of the generator's boards, computed once
GeneratedStrings ==
    [board \in {GeneratedBoards[g] : g \in GridSizes} |-> board_string(board)]

\* solver.to_string(board)
to_string(board) ==
    IF board \in DOMAIN GeneratedStrings
    THEN GeneratedStrings[board]
    ELSE board_string(board)

\* SudokuMIPSolver.generate_random_puzzle(...): the set of its results, a
\* pair (solver, actual_difficulty) of a solvable puzzle, or Absent for a
\* raised exception
Difficulties == {1}
generate_random_puzzle(sub_grid_width, sub_grid_height) ==
    {Absent} \cup
    {Some([solver |-> NewSolver(GeneratedBoards[sub_grid_width * sub_grid_height],
                                sub_grid_width, sub_grid_height, n),
           actual_difficulty |-> d]) :
        n \in 1..MaxSolutions, d \in Difficulties}

\* the k-th solution of a puzzle, as the library returns it: a full matrix
\* of the puzzle's size, here named by the puzzle and its rank
Solution(board, k) == [of |-> board, rank |-> k]
SolutionSize(solution) == Len(solution.of)

\* the matrix of a solution: the clues of the puzzle, every empty cell filled
\* with a value of 1..grid_size (which value depends on the solution)
Matrix(solution) ==
    LET grid_size == Len(solution.of) IN
    [i \in 1..grid_size |-> [j \in 1..grid_size |->
        IF solution.of[i][j] # NoneCell /\ solution.of[i][j] # 0
        THEN solution.of[i][j]
        ELSE ((i + j + solution.rank) % grid_size) + 1]]

\* the solutions of the puzzle the cuts have not excluded
Remaining(solver) ==
    IF solver.nsol > solver.cuts THEN solver.nsol - solver.cuts ELSE 0

\* solver.solve(): TRUE iff the MIP model, cuts included, is feasible
solve(solver) == Remaining(solver) > 0

\* solver.get_solution() after a successful solve
get_solution(solver) == Solution(solver.board, solver.cuts + 1)

\* solver.find_all_solutions(max_solutions): solve, record, cut, until
\* infeasible or max_solutions are found; found solutions in discovery order
find_all_solutions(solver, max_solutions) ==
    LET found == Min(Remaining(solver), max_solutions) IN
    [k \in 1..found |-> Solution(solver.board, solver.cuts + k)]

\* the solver object after find_all_solutions went through n rounds: every
\* solution found was cut from the model
AfterCuts(solver, n) == [solver EXCEPT !.cuts = @ + n]

\* solver.reset_model(): rebuilds the MIP model without the cuts
reset_model(solver) == [solver EXCEPT !.cuts = 0]

(***************************************************************************)
(* State: st.session_state and the values the widgets hold                 *)
(***************************************************************************)
VARIABLES
    global_sub_grid_width,     \* "Sub-grid Width" number input
    global_sub_grid_height,    \* "Sub-grid Height" number input
    uploaded_file,             \* content of the file the uploader holds, or Absent
    allow_multiple_solutions,  \* "Allow Multiple Solutions" checkbox
    max_solutions_input,       \* "Maximum Solutions:" number input
    current_solver,            \* st.session_state.current_solver, or Absent
    generated_difficulty,      \* st.session_state.generated_difficulty, or Absent
    generation_time,           \* st.session_state.generation_time, or Absent
    string_puzzle_input,       \* st.session_state.string_puzzle_input, or Absent
    last_uploaded_hash,        \* st.session_state.last_uploaded_hash, or Absent
    manual_cell,               \* st.session_state["manual_cell_{g}_{i}_{j}"] as [g][i+1][j+1]
    current_solution,          \* st.session_state.current_solution, or Absent
    solve_time,                \* st.session_state.solve_time, or Absent
    multiple_solutions,        \* st.session_state.multiple_solutions, or Absent
    multi_solve_time,          \* st.session_state.multi_solve_time, or Absent
    status                     \* the messages the last run reported

widgets == <<global_sub_grid_width, global_sub_grid_height, uploaded_file,
             allow_multiple_solutions, max_solutions_input>>
vars == <<global_sub_grid_width, global_sub_grid_height, uploaded_file,
          allow_multiple_solutions, max_solutions_input,
          current_solver, generated_difficulty, generation_time,
          string_puzzle_input, last_uploaded_hash, manual_cell,
          current_solution, solve_time, multiple_solutions, multi_solve_time,
          status>>

\* st.session_state as one value, as the functions of the script see it
session_state ==
    [current_solver |-> current_solver,
     generated_difficulty |-> generated_difficulty,
     generation_time |-> generation_time,
     string_puzzle_input |-> string_puzzle_input,
     last_uploaded_hash |-> last_uploaded_hash,
     manual_cell |-> manual_cell,
     current_solution |-> current_solution,
     solve_time |-> solve_time,
     multiple_solutions |-> multiple_solutions,
     multi_solve_time |-> multi_solve_time,
     status |-> {}]

\* st.success / st.error / st.warning / st.info of a message
report(s, message) == [s EXCEPT !.status = @ \cup {message}]

(***************************************************************************)
(* clear_solution_state                                                    *)
(***************************************************************************)
clear_solution_state_single_only(s) ==
    [s EXCEPT !.current_solution = Absent,
              !.solve_time = Absent]

\* variant: a single solution and its time survive the clearing
clear_solution_state_keeping_single(s) ==
    [s EXCEPT !.multiple_solutions = Absent, !.multi_solve_time = Absent]

clear_solution_state(s) ==
    [s EXCEPT !.current_solution = Absent,
              !.multiple_solutions = Absent,
              !.solve_time = Absent,
              !.multi_solve_time = Absent]

(***************************************************************************)
(* generate_puzzle_tab: clicked says whether "Generate Puzzle" was pressed,*)
(* result is what generate_random_puzzle returned, elapsed the time taken  *)
(***************************************************************************)
generate_puzzle_tab_dropping_puzzle(s, clicked, result, elapsed) ==
    IF ~clicked THEN s
    ELSE LET cleared == clear_solution_state(s) IN
         IF result = Absent
         THEN report([cleared EXCEPT !.current_solver = Absent],
                     "Error generating puzzle")
         ELSE report(
                [cleared EXCEPT
                    !.current_solver = Some(Get(result).solver),
                    !.generated_difficulty = Some(Get(result).actual_difficulty),
                    !.generation_time = Some(elapsed),
                    !.string_puzzle_input = Some(to_string(Get(result).solver.board))],
                "Puzzle generated successfully")

generate_puzzle_tab(s, clicked, result, elapsed) ==
    IF ~clicked THEN s
    ELSE LET cleared == clear_solution_state(s) IN
         IF result = Absent
         THEN report(cleared, "Error generating puzzle")
         ELSE report(
                [cleared EXCEPT
                    !.current_solver = Some(Get(result).solver),
                    !.generated_difficulty = Some(Get(result).actual_difficulty),
                    !.generation_time = Some(elapsed),
                    !.string_puzzle_input = Some(to_string(Get(result).solver.board))],
                "Puzzle generated successfully")

(***************************************************************************)
(* string_input_tab: clicked names the button pressed in this run (if it   *)
(* is one of this tab), typed is the text the user left in the text area   *)
(* (Absent when the text area was not touched)                             *)
(***************************************************************************)
\* st.session_state.get('string_puzzle_input', '')
StringDraft(s) ==
    IF s.string_puzzle_input = Absent THEN <<>> ELSE Get(s.string_puzzle_input)

string_input_tab_committing_edits(s, sub_grid_width, sub_grid_height, clicked, typed, nsol) ==
    LET loaded ==
            IF clicked = "string_load"
            THEN IF s.current_solver # Absent
                 THEN report([s EXCEPT !.string_puzzle_input =
                                  Some(to_string(Get(s.current_solver).board))],
                             "Puzzle loaded into string input!")
                 ELSE report(s, "No active puzzle to load!")
            ELSE s
        cleared ==
            IF clicked = "string_clear"
            THEN report([loaded EXCEPT !.string_puzzle_input = Some(<<>>)],
                        "String input cleared!")
            ELSE loaded
        current_value == StringDraft(cleared)
        puzzle_string == IF typed # Absent THEN Get(typed) ELSE current_value
        edited ==
            IF puzzle_string # current_value
            THEN [cleared EXCEPT !.string_puzzle_input = Some(puzzle_string)]
            ELSE cleared
    IN  IF (clicked = "string_update" \/ typed # Absent) /\ strip(puzzle_string) # <<>>
        THEN LET emptied == clear_solution_state(edited)
                 solver == from_string(strip(puzzle_string),
                                       sub_grid_width, sub_grid_height, nsol)
             IN  IF solver # Absent
                 THEN report([emptied EXCEPT !.current_solver = solver],
                             "Puzzle updated successfully!")
                 ELSE report(emptied, "Error parsing puzzle string")
        ELSE edited

string_input_tab(s, sub_grid_width, sub_grid_height, clicked, typed, nsol) ==
    LET loaded ==
            IF clicked = "string_load"
            THEN IF s.current_solver # Absent
                 THEN report([s EXCEPT !.string_puzzle_input =
                                  Some(to_string(Get(s.current_solver).board))],
                             "Puzzle loaded into string input!")
                 ELSE report(s, "No active puzzle to load!")
            ELSE s
        cleared ==
            IF clicked = "string_clear"
            THEN report([loaded EXCEPT !.string_puzzle_input = Some(<<>>)],
                        "String input cleared!")
            ELSE loaded
        current_value == StringDraft(cleared)
        puzzle_string == IF typed # Absent THEN Get(typed) ELSE current_value
        edited ==
            IF puzzle_string # current_value
            THEN [cleared EXCEPT !.string_puzzle_input = Some(puzzle_string)]
            ELSE cleared
    IN  IF clicked = "string_update" /\ strip(puzzle_string) # <<>>
        THEN LET emptied == clear_solution_state(edited)
                 solver == from_string(strip(puzzle_string),
                                       sub_grid_width, sub_grid_height, nsol)
             IN  IF solver # Absent
                 THEN report([emptied EXCEPT !.current_solver = solver],
                             "Puzzle updated successfully!")
                 ELSE report(emptied, "Error parsing puzzle string")
        ELSE edited

(***************************************************************************)
(* file_input_tab: uploaded is what the uploader holds in this run         *)
(***************************************************************************)
file_input_tab_forgetting_hash(s, sub_grid_width, sub_grid_height, uploaded, nsol) ==
    IF uploaded = Absent THEN s
    ELSE LET content == Get(uploaded)
             content_hash == hash(content)
         IN  IF s.last_uploaded_hash # Some(content_hash)
             THEN LET emptied == clear_solution_state(s)
                      solver == from_string(strip(content),
                                            sub_grid_width, sub_grid_height, nsol)
                  IN  IF solver # Absent
                      THEN report([emptied EXCEPT !.current_solver = solver],
                                  "Puzzle loaded from file successfully!")
                      ELSE report(emptied, "Error parsing file")
             ELSE s

file_input_tab(s, sub_grid_width, sub_grid_height, uploaded, nsol) ==
    IF uploaded = Absent THEN s
    ELSE LET content == Get(uploaded)
             content_hash == hash(content)
         IN  IF s.last_uploaded_hash # Some(content_hash)
             THEN LET emptied == clear_solution_state(s)
                      solver == from_string(strip(content),
                                            sub_grid_width, sub_grid_height, nsol)
                  IN  IF solver # Absent
                      THEN report([emptied EXCEPT
                                      !.current_solver = solver,
                                      !.last_uploaded_hash = Some(content_hash)],
                                  "Puzzle loaded from file successfully!")
                      ELSE report(emptied, "Error parsing file")
             ELSE s

(***************************************************************************)
(* The manual grid                                                         *)
(***************************************************************************)
\* manual_cell[grid_size][i + 1][j + 1] is the value st.session_state holds
\* under the key manual_cell_{grid_size}_{i}_{j}: Missing when the key is not
\* in st.session_state, NoneCell or a number otherwise

\* create_manual_input_grid, its first loop: the session after it, every
\* missing key of the grid size set to None
create_manual_input_keys(s, grid_size) ==
    IF \A i \in Indices(grid_size), j \in Indices(grid_size) :
          s.manual_cell[grid_size][i][j] # Missing
    THEN s
    ELSE [s EXCEPT !.manual_cell[grid_size] =
            [i \in Indices(grid_size) |-> [j \in Indices(grid_size) |->
                IF @[i][j] = Missing THEN NoneCell ELSE @[i][j]]]]

\* create_manual_input_grid, its second loop: the board it returns, read
\* from the number inputs of the grid size (s is the session after the
\* first loop)
create_manual_input_grid(s, grid_size) ==
    [i \in Indices(grid_size) |-> [j \in Indices(grid_size) |->
        LET value == s.manual_cell[grid_size][i][j] IN
        IF value = 0 THEN NoneCell ELSE value]]

\* variant: the load fills only the cells that are empty
load_puzzle_into_manual_input_filling_gaps(s, puzzle_board, grid_size) ==
    [s EXCEPT !.manual_cell[grid_size] =
        [i \in Indices(grid_size) |-> [j \in Indices(grid_size) |->
            IF /\ i <= Min(Len(puzzle_board), grid_size)
               /\ j <= Min(Len(puzzle_board[i]), grid_size)
               /\ @[i][j] \in {NoneCell, Missing, 0}
            THEN LET value == puzzle_board[i][j] IN
                 IF value # NoneCell /\ value # 0 THEN value ELSE NoneCell
            ELSE @[i][j]]]]

load_puzzle_into_manual_input(s, puzzle_board, grid_size) ==
    [s EXCEPT !.manual_cell[grid_size] =
        [i \in Indices(grid_size) |-> [j \in Indices(grid_size) |->
            IF /\ i <= Min(Len(puzzle_board), grid_size)
               /\ j <= Min(Len(puzzle_board[i]), grid_size)
            THEN LET value == puzzle_board[i][j] IN
                 IF value # NoneCell /\ value # 0 THEN value ELSE NoneCell
            ELSE @[i][j]]]]

\* variant: the clear button empties the grids of every size
clear_manual_input_grid_every_size(s, grid_size) ==
    [s EXCEPT !.manual_cell =
        [g \in DOMAIN @ |-> [i \in Indices(g) |-> [j \in Indices(g) |->
            IF @[g][i][j] # Missing THEN NoneCell ELSE Missing]]]]

\* variant: the clear button passes over the first cell
clear_manual_input_grid_sparing_first_cell(s, grid_size) ==
    [s EXCEPT !.manual_cell[grid_size] =
        [i \in Indices(grid_size) |-> [j \in Indices(grid_size) |->
            IF @[i][j] # Missing /\ <<i, j>> # <<1, 1>> THEN NoneCell ELSE @[i][j]]]]

clear_manual_input_grid(s, grid_size) ==
    [s EXCEPT !.manual_cell[grid_size] =
        [i \in Indices(grid_size) |-> [j \in Indices(grid_size) |->
            IF @[i][j] # Missing THEN NoneCell ELSE Missing]]]

manual_input_tab_loading_any_size(s, sub_grid_width, sub_grid_height, clicked, nsol) ==
    LET grid_size == sub_grid_width * sub_grid_height
        loaded ==
            IF clicked = "manual_load"
            THEN IF s.current_solver # Absent
                 THEN LET solver == Get(s.current_solver)
                          solver_grid_size == Len(solver.board)
                      IN  report(load_puzzle_into_manual_input(
                                     s, solver.board, grid_size),
                                 "Puzzle loaded into manual input!")
                 ELSE report(s, "No active puzzle to load!")
            ELSE s
        cleared ==
            IF clicked = "manual_clear"
            THEN report(clear_manual_input_grid(loaded, grid_size), "Grid cleared!")
            ELSE loaded
        keyed == create_manual_input_keys(cleared, grid_size)
    IN  IF clicked = "manual_update"
        THEN LET board == create_manual_input_grid(keyed, grid_size)
                 emptied == clear_solution_state(keyed)
                 solver == SudokuMIPSolver(board, sub_grid_width,
                                           sub_grid_height, nsol)
             IN  IF solver # Absent
                 THEN report([emptied EXCEPT !.current_solver = solver],
                             "Puzzle created successfully!")
                 ELSE report(emptied, "Error creating puzzle")
        ELSE keyed

manual_input_tab(s, sub_grid_width, sub_grid_height, clicked, nsol) ==
    LET grid_size == sub_grid_width * sub_grid_height
        loaded ==
            IF clicked = "manual_load"
            THEN IF s.current_solver # Absent
                 THEN LET solver == Get(s.current_solver)
                          solver_grid_size == Len(solver.board)
                      IN  IF solver_grid_size # grid_size
                          THEN report(s, "Cannot load puzzle into manual input grid")
                          ELSE report(load_puzzle_into_manual_input(
                                          s, solver.board, grid_size),
                                      "Puzzle loaded into manual input!")
                 ELSE report(s, "No active puzzle to load!")
            ELSE s
        cleared ==
            IF clicked = "manual_clear"
            THEN report(clear_manual_input_grid(loaded, grid_size), "Grid cleared!")
            ELSE loaded
        keyed == create_manual_input_keys(cleared, grid_size)
    IN  IF clicked = "manual_update"
        THEN LET board == create_manual_input_grid(keyed, grid_size)
                 emptied == clear_solution_state(keyed)
                 solver == SudokuMIPSolver(board, sub_grid_width,
                                           sub_grid_height, nsol)
             IN  IF solver # Absent
                 THEN report([emptied EXCEPT !.current_solver = solver],
                             "Puzzle created successfully!")
                 ELSE report(emptied, "Error creating puzzle")
        ELSE keyed

(***************************************************************************)
(* solve_puzzle_with_options: raised says whether the library call raised, *)
(* progress how many solutions find_all_solutions had cut when it raised,  *)
(* elapsed the time measured                                               *)
(***************************************************************************)
\* the branch "if max_solutions == 1": a single solution is asked for
solve_single_keeping_multiple(s, solver, raised, elapsed) ==
    IF raised
    THEN report(s, "Error solving puzzle")
    ELSE IF solve(solver)
    THEN report([s EXCEPT !.current_solver = Some(solver),
                          !.current_solution = Some(get_solution(solver)),
                          !.solve_time = Some(elapsed)],
                "Puzzle solved")
    ELSE report(s, "No solution found!")

\* variant: the solution is recorded without its time
solve_single_without_time(s, solver, raised, elapsed) ==
    LET single == [s EXCEPT !.multiple_solutions = Absent,
                            !.multi_solve_time = Absent]
    IN  IF raised
        THEN report(single, "Error solving puzzle")
        ELSE IF solve(solver)
        THEN report([single EXCEPT
                        !.current_solver = Some(solver),
                        !.current_solution = Some(get_solution(solver))],
                    "Puzzle solved")
        ELSE report(single, "No solution found!")

\* variant: an infeasible puzzle is reported as an error of the solver
solve_single_raising_on_infeasible(s, solver, raised, elapsed) ==
    LET single == [s EXCEPT !.multiple_solutions = Absent,
                            !.multi_solve_time = Absent]
    IN  IF raised \/ ~solve(solver)
        THEN report(single, "Error solving puzzle")
        ELSE report([single EXCEPT
                        !.current_solver = Some(solver),
                        !.current_solution = Some(get_solution(solver)),
                        !.solve_time = Some(elapsed)],
                    "Puzzle solved")

solve_single(s, solver, raised, elapsed) ==
    LET single == [s EXCEPT !.multiple_solutions = Absent,
                            !.multi_solve_time = Absent]
    IN  IF raised
        THEN report(single, "Error solving puzzle")
        ELSE IF solve(solver)
        THEN report([single EXCEPT
                        !.current_solver = Some(solver),
                        !.current_solution = Some(get_solution(solver)),
                        !.solve_time = Some(elapsed)],
                    "Puzzle solved")
        ELSE report(single, "No solution found!")

\* variant: the limit is reported whenever several solutions were found
solve_multiple_always_at_limit(s, solver, max_solutions, raised, progress, elapsed) ==
    LET multiple == [s EXCEPT !.current_solution = Absent,
                              !.solve_time = Absent]
        solutions == find_all_solutions(solver, max_solutions)
    IN  IF raised
        THEN report([multiple EXCEPT !.current_solver =
                        Some(AfterCuts(solver, Min(progress, Len(solutions))))],
                    "Error solving puzzle")
        ELSE LET recorded ==
                     [multiple EXCEPT
                         !.current_solver =
                             Some(reset_model(AfterCuts(solver, Len(solutions)))),
                         !.multiple_solutions = Some(solutions),
                         !.multi_solve_time = Some(elapsed)]
             IN  IF Len(solutions) = 0
                 THEN report(recorded, "No solutions found!")
                 ELSE IF Len(solutions) = 1
                 THEN report(recorded, "Found 1 unique solution")
                 ELSE report(report(recorded, "Found solutions"),
                             "Reached maximum limit")

\* the branch "else": up to max_solutions solutions are asked for
solve_multiple(s, solver, max_solutions, raised, progress, elapsed) ==
    LET multiple == [s EXCEPT !.current_solution = Absent,
                              !.solve_time = Absent]
        solutions == find_all_solutions(solver, max_solutions)
    IN  IF raised
        THEN \* the solver object keeps the cuts added before the exception
             report([multiple EXCEPT !.current_solver =
                        Some(AfterCuts(solver, Min(progress, Len(solutions))))],
                    "Error solving puzzle")
        ELSE LET recorded ==
                     [multiple EXCEPT
                         !.current_solver =
                             Some(reset_model(AfterCuts(solver, Len(solutions)))),
                         !.multiple_solutions = Some(solutions),
                         !.multi_solve_time = Some(elapsed)]
             IN  IF Len(solutions) = 0
                 THEN report(recorded, "No solutions found!")
                 ELSE IF Len(solutions) = 1
                 THEN report(recorded, "Found 1 unique solution")
                 ELSE IF Len(solutions) = max_solutions
                 THEN report(report(recorded, "Found solutions"),
                             "Reached maximum limit")
                 ELSE report(recorded, "Found solutions")

solve_puzzle_with_options_unguarded(s, max_solutions, raised, progress, elapsed) ==
    IF s.current_solver = Absent
    THEN report(s, "Error solving puzzle")
    ELSE IF max_solutions = 1
    THEN solve_single(s, Get(s.current_solver), raised, elapsed)
    ELSE solve_multiple(s, Get(s.current_solver), max_solutions,
                        raised, progress, elapsed)

solve_puzzle_with_options(s, max_solutions, raised, progress, elapsed) ==
    IF s.current_solver = Absent
    THEN report(s, "No active puzzle to solve!")
    ELSE IF max_solutions = 1
    THEN solve_single(s, Get(s.current_solver), raised, elapsed)
    ELSE solve_multiple(s, Get(s.current_solver), max_solutions,
                        raised, progress, elapsed)

(***************************************************************************)
(* solve_options_section                                                   *)
(***************************************************************************)
solve_options_section(s, allow_multiple, max_solutions, clicked, raised, progress, elapsed) ==
    IF s.current_solver = Absent THEN s
    ELSE IF allow_multiple
    THEN IF clicked = "solve_multiple"
         THEN solve_puzzle_with_options(s, max_solutions, raised, progress, elapsed)
         ELSE s
    ELSE IF clicked = "solve_single"
         THEN solve_puzzle_with_options(s, 1, raised, progress, elapsed)
         ELSE s

(***************************************************************************)
(* main: one run of the script.  env holds what the outside world answers  *)
(* in this run: the text typed, the generator's result, the number of      *)
(* solutions of a newly made puzzle, whether the solver raises, and the    *)
(* elapsed time.                                                           *)
(***************************************************************************)
main(s, sub_grid_width, sub_grid_height, uploaded, allow_multiple, max_solutions, clicked, env) ==
    The({solve_options_section(tab4, allow_multiple, max_solutions, clicked,
                               env.raised, env.progress, env.elapsed) :
         tab4 \in
        {manual_input_tab(tab3, sub_grid_width, sub_grid_height,
                          clicked, env.nsol) :
         tab3 \in
        {file_input_tab(tab2, sub_grid_width, sub_grid_height,
                        uploaded, env.nsol) :
         tab2 \in
        {string_input_tab(tab1, sub_grid_width, sub_grid_height,
                          clicked, env.typed, env.nsol) :
         tab1 \in
        {generate_puzzle_tab(s, clicked = "generate",
                             env.generated, env.elapsed)}}}}})

\* the state after a run that ended in session s with the widgets as given
Becomes(session, sub_grid_width, sub_grid_height, uploaded, allow_multiple, max_solutions) ==
    \E s \in {session} :
        /\ global_sub_grid_width' = sub_grid_width
        /\ global_sub_grid_height' = sub_grid_height
        /\ uploaded_file' = uploaded
        /\ allow_multiple_solutions' = allow_multiple
        /\ max_solutions_input' = max_solutions
        /\ current_solver' = s.current_solver
        /\ generated_difficulty' = s.generated_difficulty
        /\ generation_time' = s.generation_time
        /\ string_puzzle_input' = s.string_puzzle_input
        /\ last_uploaded_hash' = s.last_uploaded_hash
        /\ manual_cell' = s.manual_cell
        /\ current_solution' = s.current_solution
        /\ solve_time' = s.solve_time
        /\ multiple_solutions' = s.multiple_solutions
        /\ multi_solve_time' = s.multi_solve_time
        /\ status' = s.status

\* the answers of a run in which nothing is typed and no library call is made
Quiet ==
    [typed |-> Absent, generated |-> Absent, nsol |-> 0,
     raised |-> FALSE, progress |-> 0, elapsed |-> 1]

\* a run with the widgets as they are
Run(clicked, env) ==
    Becomes(main(session_state, global_sub_grid_width, global_sub_grid_height,
                 uploaded_file, allow_multiple_solutions, max_solutions_input,
                 clicked, env),
            global_sub_grid_width, global_sub_grid_height, uploaded_file,
            allow_multiple_solutions, max_solutions_input)

(***************************************************************************)
(* What a run shows: display_puzzle_and_results reads st.session_state and *)
(* writes none of it.  Rows and columns are counted from 0, as in the code.*)
(***************************************************************************)
Digits == <<"0", "1", "2", "3", "4", "5", "6", "7", "8", "9">>

\* str(n) of a natural number
RECURSIVE str(_)
str(n) ==
    IF n < 10 THEN <<Digits[n + 1]>>
    ELSE str(n \div 10) \o <<Digits[(n % 10) + 1]>>

create_cell_html_swapping_dimensions(i, j, cell, grid_size, sub_grid_width, sub_grid_height) ==
    LET borders ==
            (IF (j + 1) % sub_grid_height = 0 /\ j < grid_size - 1
             THEN <<"thick-right">> ELSE <<>>)
            \o (IF (i + 1) % sub_grid_width = 0 /\ i < grid_size - 1
                THEN <<"thick-bottom">> ELSE <<>>)
    IN  IF cell = 0 \/ cell = NoneCell
        THEN [classes |-> borders \o <<"empty">>, display_value |-> <<".">>]
        ELSE [classes |-> borders \o <<"clue">>, display_value |-> str(cell)]

\* variant: only None is shown as an empty cell
create_cell_html_showing_zero(i, j, cell, grid_size, sub_grid_width, sub_grid_height) ==
    LET borders ==
            (IF (j + 1) % sub_grid_width = 0 /\ j < grid_size - 1
             THEN <<"thick-right">> ELSE <<>>)
            \o (IF (i + 1) % sub_grid_height = 0 /\ i < grid_size - 1
                THEN <<"thick-bottom">> ELSE <<>>)
    IN  IF cell = NoneCell
        THEN [classes |-> borders \o <<"empty">>, display_value |-> <<".">>]
        ELSE [classes |-> borders \o <<"clue">>, display_value |-> str(cell)]

\* the <td> of the cell in row i, column j: its classes and its text ("."
\* stands for the middle dot of an empty cell)
create_cell_html(i, j, cell, grid_size, sub_grid_width, sub_grid_height) ==
    LET borders ==
            (IF (j + 1) % sub_grid_width = 0 /\ j < grid_size - 1
             THEN <<"thick-right">> ELSE <<>>)
            \o (IF (i + 1) % sub_grid_height = 0 /\ i < grid_size - 1
                THEN <<"thick-bottom">> ELSE <<>>)
    IN  IF cell = 0 \/ cell = NoneCell
        THEN [classes |-> borders \o <<"empty">>, display_value |-> <<".">>]
        ELSE [classes |-> borders \o <<"clue">>, display_value |-> str(cell)]

\* create_sudoku_html(board): the rows of the table, each the <td>s of its
\* cells; Absent when it returns None
create_sudoku_html(s, board) ==
    IF s.current_solver = Absent THEN Absent
    ELSE LET solver == Get(s.current_solver)
             grid_size == Len(board)
         IN  Some([r \in 1..Len(board) |-> [c \in 1..Len(board[r]) |->
                 create_cell_html(r - 1, c - 1, board[r][c], grid_size,
                                  solver.sub_grid_width, solver.sub_grid_height)]])

\* count_clues(board): the cells that are neither 0 nor None
count_clues(board) ==
    Cardinality({<<i, j>> \in (1..Len(board)) \X (1..Len(board)) :
                    j <= Len(board[i]) /\ board[i][j] # 0 /\ board[i][j] # NoneCell})

display_sudoku_board(s, board) == create_sudoku_html(s, board)

\* display_multiple_solutions with the selectbox at selected_solution: the
\* board it shows, Absent when the list is empty
display_multiple_solutions(s, selected_solution) ==
    LET solutions == Get(s.multiple_solutions) IN
    IF Len(solutions) > 0
    THEN display_sudoku_board(s, Matrix(solutions[selected_solution + 1]))
    ELSE Absent

\* display_multiple_solutions, its "Search Statistics": the number found,
\* the search time and the average time per solution (a quotient, kept as
\* numerator and denominator); Absent when the list is empty
search_statistics(s) ==
    LET solutions == Get(s.multiple_solutions) IN
    IF Len(solutions) > 0
    THEN Some([found |-> Len(solutions),
               search_time |-> Get(s.multi_solve_time),
               avg_time |-> [numerator |-> Get(s.multi_solve_time),
                             denominator |-> Len(solutions)]])
    ELSE Absent

\* display_puzzle_and_results: the puzzle board, the metrics beside it, and
\* the result shown (kind says which branch drew it)
display_puzzle_and_results(s, selected_solution) ==
    IF s.current_solver = Absent
    THEN [puzzle |-> Absent, difficulty |-> Absent, generation_time |-> Absent,
          kind |-> "none", solution |-> Absent, time |-> Absent]
    ELSE [puzzle |-> display_sudoku_board(s, Get(s.current_solver).board),
          difficulty |-> s.generated_difficulty,
          generation_time |-> s.generation_time,
          kind |-> IF s.current_solution # Absent THEN "single"
                   ELSE IF s.multiple_solutions # Absent THEN "multiple"
                   ELSE "none",
          solution |->
              IF s.current_solution # Absent
              THEN display_sudoku_board(s, Matrix(Get(s.current_solution)))
              ELSE IF s.multiple_solutions # Absent
              THEN display_multiple_solutions(s, selected_solution)
              ELSE Absent,
          time |-> IF s.current_solution # Absent THEN s.solve_time
                   ELSE IF s.multiple_solutions # Absent /\ Get(s.multiple_solutions) # <<>>
                   THEN s.multi_solve_time
                   ELSE Absent]
(***************************************************************************)
(* Init: the session before the first interaction, after the first run of  *)
(* the script (which creates the manual grid's keys for the default size)  *)
(***************************************************************************)
Init ==
    /\ global_sub_grid_width = DEFAULT_DIM
    /\ global_sub_grid_height = DEFAULT_DIM
    /\ uploaded_file = Absent
    /\ allow_multiple_solutions = FALSE
    /\ max_solutions_input = DEFAULT_MAX_SOLUTIONS
    /\ current_solver = Absent
    /\ generated_difficulty = Absent
    /\ generation_time = Absent
    /\ string_puzzle_input = Absent
    /\ last_uploaded_hash = Absent
    /\ manual_cell =
          [g \in GridSizes |-> [i \in Indices(g) |-> [j \in Indices(g) |->
              IF g = DEFAULT_DIM * DEFAULT_DIM THEN NoneCell ELSE Missing]]]
    /\ current_solution = Absent
    /\ solve_time = Absent
    /\ multiple_solutions = Absent
    /\ multi_solve_time = Absent
    /\ status = {}

(***************************************************************************)
(* The user's interactions, each followed by a run of main.  A puzzle made *)
(* in a run has nsol solutions, nsol chosen by the world.                  *)
(***************************************************************************)
\* a re-run with no widget of the model touched
Rerender == Run("none", Quiet)

\* one of the two dimension inputs is changed
ChangeDimensions ==
    \E w \in SubGridWidths, h \in SubGridHeights, nsol \in 0..MaxSolutions :
        /\ <<w, h>> # <<global_sub_grid_width, global_sub_grid_height>>
        /\ w = global_sub_grid_width \/ h = global_sub_grid_height
        /\ Becomes(main(session_state, w, h, uploaded_file,
                        allow_multiple_solutions, max_solutions_input,
                        "none", [Quiet EXCEPT !.nsol = nsol]),
                   w, h, uploaded_file, allow_multiple_solutions,
                   max_solutions_input)

ClickGenerate ==
    \E result \in generate_random_puzzle(global_sub_grid_width,
                                         global_sub_grid_height),
       elapsed \in Times :
        Run("generate", [Quiet EXCEPT !.generated = result,
                                      !.elapsed = elapsed])

EditString ==
    \E text \in TypedTexts :
        /\ text # StringDraft(session_state)
        /\ Run("none", [Quiet EXCEPT !.typed = Some(text)])

ClickLoadString == Run("string_load", Quiet)

ClickClearString == Run("string_clear", Quiet)

\* the button is disabled while the text area is blank
ClickUpdateString ==
    \E nsol \in 0..MaxSolutions :
        /\ strip(StringDraft(session_state)) # <<>>
        /\ Run("string_update", [Quiet EXCEPT !.nsol = nsol])

UploadFile ==
    \E content \in FileTexts, nsol \in 0..MaxSolutions :
        /\ uploaded_file # Some(content)
        /\ Becomes(main(session_state, global_sub_grid_width,
                        global_sub_grid_height, Some(content),
                        allow_multiple_solutions, max_solutions_input,
                        "none", [Quiet EXCEPT !.nsol = nsol]),
                   global_sub_grid_width, global_sub_grid_height, Some(content),
                   allow_multiple_solutions, max_solutions_input)

RemoveFile ==
    /\ uploaded_file # Absent
    /\ Becomes(main(session_state, global_sub_grid_width,
                    global_sub_grid_height, Absent,
                    allow_multiple_solutions, max_solutions_input,
                    "none", Quiet),
               global_sub_grid_width, global_sub_grid_height, Absent,
               allow_multiple_solutions, max_solutions_input)

ClickLoadManual == Run("manual_load", Quiet)

ClickClearManual == Run("manual_clear", Quiet)

ClickUpdateManual ==
    \E nsol \in 0..MaxSolutions :
        Run("manual_update", [Quiet EXCEPT !.nsol = nsol])

\* the solving options exist only once a puzzle is active
ToggleMultiple ==
    /\ current_solver # Absent
    /\ Becomes(main(session_state, global_sub_grid_width,
                    global_sub_grid_height, uploaded_file,
                    ~allow_multiple_solutions, max_solutions_input,
                    "none", Quiet),
               global_sub_grid_width, global_sub_grid_height, uploaded_file,
               ~allow_multiple_solutions, max_solutions_input)

SetMaxSolutions ==
    \E cap \in Caps :
        /\ current_solver # Absent
        /\ allow_multiple_solutions
        /\ cap # max_solutions_input
        /\ Becomes(main(session_state, global_sub_grid_width,
                        global_sub_grid_height, uploaded_file,
                        allow_multiple_solutions, cap, "none", Quiet),
                   global_sub_grid_width, global_sub_grid_height, uploaded_file,
                   allow_multiple_solutions, cap)

ClickSolve ==
    \E raised \in BOOLEAN, elapsed \in Times :
        /\ current_solver # Absent
        /\ ~allow_multiple_solutions
        /\ Run("solve_single", [Quiet EXCEPT !.raised = raised,
                                           !.elapsed = elapsed])

\* 'Solve Puzzle' pressed, with solver.solve returning (it does not raise)
ClickSolveReturning ==
    \E elapsed \in Times :
        /\ current_solver # Absent
        /\ ~allow_multiple_solutions
        /\ Run("solve_single", [Quiet EXCEPT !.elapsed = elapsed])

ClickFindMultiple ==
    \E raised \in BOOLEAN, progress \in 0..MaxSolutions, elapsed \in Times :
        /\ current_solver # Absent
        /\ allow_multiple_solutions
        /\ raised \/ progress = 0
        /\ Run("solve_multiple", [Quiet EXCEPT !.raised = raised,
                                             !.progress = progress,
                                             !.elapsed = elapsed])

\* The runs that can commit a puzzle, solve it, or change what a later run
\* of these reads.  The four buttons that only rewrite the string draft or
\* the manual grid (ClickLoadString, ClickClearString, ClickLoadManual,
\* ClickClearManual) commit nothing and touch neither puzzle nor results.
Next ==
    \/ Rerender
    \/ ChangeDimensions
    \/ ClickGenerate
    \/ EditString
    \/ ClickUpdateString
    \/ UploadFile
    \/ RemoveFile
    \/ ClickUpdateManual
    \/ ToggleMultiple
    \/ SetMaxSolutions
    \/ ClickSolve
    \/ ClickFindMultiple

Spec == Init /\ [][Next]_vars

\* solve_puzzle_with_options called while st.session_state holds no puzzle.
\* The page draws no solve button then (solve_options_section returns first),
\* so the call comes from a caller other than the page's buttons.
SolveRequest ==
    \E max_solutions \in Caps, elapsed \in Times :
        /\ current_solver = Absent
        /\ Becomes(solve_puzzle_with_options(session_state, max_solutions,
                                             FALSE, 0, elapsed),
                   global_sub_grid_width, global_sub_grid_height, uploaded_file,
                   allow_multiple_solutions, max_solutions_input)

NextWithSolveRequest == Next \/ SolveRequest

SpecSolveRequest == Init /\ [][NextWithSolveRequest]_vars

(***************************************************************************)
(* The drafts: the string draft and the manual grid, each with the buttons *)
(* that fill and empty it.  The solve mode stays Single.                   *)
(***************************************************************************)
\* what the user types into a manual cell: 0 (shown as empty) or a value
EditValues == {0, 2}

\* a number input of the manual grid of the current size is changed; its
\* key holds the new value when the script runs
EditManualCell ==
    \E i \in 1..MaxEditIndex, j \in 1..MaxEditIndex, value \in EditValues :
        LET grid_size == global_sub_grid_width * global_sub_grid_height IN
        /\ manual_cell[grid_size][i][j] # value
        /\ Becomes(main([session_state EXCEPT !.manual_cell[grid_size][i][j] = value],
                        global_sub_grid_width, global_sub_grid_height,
                        uploaded_file, allow_multiple_solutions,
                        max_solutions_input, "none", Quiet),
                   global_sub_grid_width, global_sub_grid_height, uploaded_file,
                   allow_multiple_solutions, max_solutions_input)

\* the string draft: no manual cell is edited
NextStringDraft ==
    \/ ChangeDimensions
    \/ ClickGenerate
    \/ UploadFile
    \/ RemoveFile
    \/ ClickSolve
    \/ EditString
    \/ ClickLoadString
    \/ ClickClearString
    \/ ClickUpdateString

SpecStringDraft == Init /\ [][NextStringDraft]_vars

\* the manual grid: the string draft is not edited
NextManualGrid ==
    \/ ChangeDimensions
    \/ ClickGenerate
    \/ UploadFile
    \/ RemoveFile
    \/ ClickSolve
    \/ EditManualCell
    \/ ClickLoadManual
    \/ ClickClearManual
    \/ ClickUpdateManual

SpecManualGrid == Init /\ [][NextManualGrid]_vars

(***************************************************************************)
(* The renderer, for every pair of sub-grid dimensions the inputs admit:   *)
(* the session holds a puzzle committed at dimensions w x h, and the user  *)
(* solves it in either mode.                                               *)
(***************************************************************************)
RenderDims == MIN_DIM..MAX_DIM

\* the boards rendered: an empty one, and one with a clue in two corners
RenderBoards(grid_size) ==
    {EmptyBoard(grid_size),
     [EmptyBoard(grid_size) EXCEPT ![1][1] = 1, ![grid_size][grid_size] = grid_size]}

InitRender ==
    \E w \in RenderDims, h \in RenderDims, nsol \in 0..MaxSolutions :
    \E board \in RenderBoards(w * h) :
        /\ global_sub_grid_width = w
        /\ global_sub_grid_height = h
        /\ uploaded_file = Absent
        /\ allow_multiple_solutions = FALSE
        /\ max_solutions_input = DEFAULT_MAX_SOLUTIONS
        /\ current_solver = Some(NewSolver(board, w, h, nsol))
        /\ generated_difficulty = Absent
        /\ generation_time = Absent
        /\ string_puzzle_input = Absent
        /\ last_uploaded_hash = Absent
        /\ manual_cell =
              [g \in {DEFAULT_DIM * DEFAULT_DIM, w * h} |-> EmptyBoard(g)]
        /\ current_solution = Absent
        /\ solve_time = Absent
        /\ multiple_solutions = Absent
        /\ multi_solve_time = Absent
        /\ status = {}

NextRender ==
    \/ Rerender
    \/ ToggleMultiple
    \/ ClickSolve
    \/ ClickFindMultiple

SpecRender == InitRender /\ [][NextRender]_vars

(***************************************************************************)
(* Properties                                                              *)
(***************************************************************************)
\* what each adapter reports when it commits a puzzle, and when it fails
GenerateCommitted == "Puzzle generated successfully"
StringCommitted == "Puzzle updated successfully!"
FileCommitted == "Puzzle loaded from file successfully!"
ManualCommitted == "Puzzle created successfully!"
CommitMessages ==
    {GenerateCommitted, StringCommitted, FileCommitted, ManualCommitted}
FailureMessages ==
    {"Error generating puzzle", "Error parsing puzzle string",
     "Error parsing file", "Error creating puzzle"}
\* what a solve reports when the library call returned
SingleRecorded == {"Puzzle solved"}
MultipleRecorded == {"No solutions found!", "Found 1 unique solution",
                     "Found solutions"}
SolveCompleted == SingleRecorded \cup {"No solution found!"} \cup MultipleRecorded

\* the puzzle a solver object holds, whatever the state of its MIP model
ActivePuzzle(solver) ==
    IF solver = Absent THEN Absent ELSE Some([Get(solver) EXCEPT !.cuts = 0])

SingleHeld == current_solution # Absent \/ solve_time # Absent
MultipleHeld == multiple_solutions # Absent \/ multi_solve_time # Absent

Results == <<current_solution, solve_time, multiple_solutions, multi_solve_time>>
\* the puzzle, the solver object, the results with their times, the
\* generation metadata
Session == <<current_solver, generated_difficulty, generation_time, Results>>

\* C1: after a run in which one of the four adapters (Generate, String, File,
\* Manual) committed a puzzle, the session holds no single solution, no
\* multiple solutions and neither solve time.
C1_CommitInvalidatesResults ==
    status \cap CommitMessages # {} =>
        /\ current_solver # Absent
        /\ current_solution = Absent
        /\ solve_time = Absent
        /\ multiple_solutions = Absent
        /\ multi_solve_time = Absent

\* C1, its case: the String adapter has just committed a puzzle
C1_Witness ==
    /\ StringCommitted \in status
    /\ current_solver # Absent
    /\ Results = <<Absent, Absent, Absent, Absent>>

\* C2: the session never holds a single-solution result (or its time) and a
\* multiple-solutions result (or its time) together, and after a solve that
\* recorded a result the result held is of the kind that solve recorded.
C2_ResultsMutuallyExclusive ==
    /\ ~(SingleHeld /\ MultipleHeld)
    /\ status \cap SingleRecorded # {} =>
          current_solution # Absent /\ solve_time # Absent /\ ~MultipleHeld
    /\ status \cap MultipleRecorded # {} =>
          multiple_solutions # Absent /\ multi_solve_time # Absent /\ ~SingleHeld

\* C2, its case: an enumeration has just recorded its result
C2_Witness ==
    /\ status \cap MultipleRecorded # {}
    /\ multiple_solutions # Absent
    /\ multi_solve_time # Absent
    /\ current_solution = Absent

\* C3: a run in which a load/commit attempt failed, and nothing else was
\* reported, leaves the puzzle, the solver object, the results with their
\* times and the generation metadata as they were.
C3_FailedCommitLeavesSession ==
    [][(status' # {} /\ status' \subseteq FailureMessages)
          => Session' = Session]_vars

\* C4: after the String, File or Manual adapter committed a puzzle, the
\* session holds no generated difficulty and no generation time.
C4_MetadataOnlyForGenerated ==
    status \cap {StringCommitted, FileCommitted, ManualCommitted} # {} =>
        generated_difficulty = Absent /\ generation_time = Absent

\* C5: a run in which an adapter's attempt failed and no adapter committed
\* leaves the active puzzle the one held before (none, if none was held).
C5_FailedAttemptKeepsPuzzle ==
    [][(status' \cap FailureMessages # {} /\ status' \cap CommitMessages = {})
          => ActivePuzzle(current_solver') = ActivePuzzle(current_solver)]_vars

\* C5, its case: an attempt has failed while a puzzle, made by the generator,
\* is active
C5_Witness ==
    /\ status \cap FailureMessages # {}
    /\ status \cap CommitMessages = {}
    /\ current_solver # Absent
    /\ generated_difficulty # Absent

\* C6: a file that was committed has its hash recorded, and a run that finds
\* the uploader holding content whose hash is the recorded one reports
\* nothing for the file, keeps the recorded hash and, if nothing else
\* happened in the run, keeps the puzzle and the results: the same content
\* commits once.
C6_SameFileCommitsOnce ==
    /\ [](FileCommitted \in status =>
             /\ uploaded_file # Absent
             /\ last_uploaded_hash = Some(hash(Get(uploaded_file))))
    /\ [][(/\ uploaded_file' # Absent
           /\ last_uploaded_hash = Some(hash(Get(uploaded_file'))))
          => /\ FileCommitted \notin status'
             /\ "Error parsing file" \notin status'
             /\ last_uploaded_hash' = last_uploaded_hash
             /\ status' = {} =>
                   /\ ActivePuzzle(current_solver') = ActivePuzzle(current_solver)
                   /\ Results' = Results]_vars

\* C6, its case: the uploader still holds the committed file, and a result
\* recorded since the commit is still held
C6_Witness ==
    /\ uploaded_file # Absent
    /\ last_uploaded_hash = Some(hash(Get(uploaded_file)))
    /\ FileCommitted \notin status
    /\ multiple_solutions # Absent

\* C7: while a puzzle is active, a run in which the user pressed no commit
\* button and gave the uploader no new file (a re-render, a change of the
\* dimensions) leaves the active puzzle as it was, also while the uploader
\* holds a file.
C7_OnlyCommitActionsReplace ==
    [][(/\ current_solver # Absent
        /\ uploaded_file' = uploaded_file
        /\ status' \cap {GenerateCommitted, StringCommitted, ManualCommitted} = {})
          => ActivePuzzle(current_solver') = ActivePuzzle(current_solver)]_vars

\* C8: after a Multiple-mode solve whose library call returned, whatever the
\* cap, the session holds a multiple-solutions result with its time and no
\* single-solution result.
C8_MultipleModeRecordsMultiple ==
    (allow_multiple_solutions /\ status \cap SolveCompleted # {}) =>
        /\ multiple_solutions # Absent
        /\ multi_solve_time # Absent
        /\ current_solution = Absent

\* C9: no run ends with the solver object still carrying cuts of an
\* enumeration, so no later solve runs on such an object.
C9_HandleResetAfterEnumeration ==
    current_solver # Absent => Get(current_solver).cuts = 0

\* C10: a solve request made while no puzzle is active reports the missing
\* puzzle, and a run that reports it changes nothing of the session.
C10_SolveWithoutPuzzle ==
    [][/\ SolveRequest => "No active puzzle to solve!" \in status'
       /\ "No active puzzle to solve!" \in status' =>
             /\ current_solver' = Absent
             /\ UNCHANGED <<current_solver, generated_difficulty,
                            generation_time, string_puzzle_input,
                            last_uploaded_hash, manual_cell, Results>>]_vars

\* C10, its case: a solve was requested in a session without a puzzle
C10_Witness ==
    /\ "No active puzzle to solve!" \in status
    /\ current_solver = Absent

\* what the File tab reports when it parses the content of the uploader
FileMessages == {FileCommitted, "Error parsing file"}

\* what the Manual tab reports when the active puzzle does not fit the grid
MismatchReported == "Cannot load puzzle into manual input grid"

\* the size of the manual grid on the page
CurrentGridSize == global_sub_grid_width * global_sub_grid_height

HasClass(td, class) == \E k \in 1..Len(td.classes) : td.classes[k] = class

\* the boards on the page: the puzzle and, if one is shown, the solution
ShownBoards ==
    LET shown == display_puzzle_and_results(session_state, 0) IN
    {shown.puzzle, shown.solution} \ {Absent}

\* C12: every board on the page has as many rows and columns as the grid of
\* the active puzzle, and its cell in row i, column j (from 0) is marked
\* thick-right iff (j + 1) mod w = 0 and j < gridSize - 1, and thick-bottom
\* iff (i + 1) mod h = 0 and i < gridSize - 1, w and h being the sub-grid
\* width and height of the active puzzle.
C12_ThickBorders ==
    current_solver # Absent =>
        LET w == Get(current_solver).sub_grid_width
            h == Get(current_solver).sub_grid_height
            gridSize == w * h
        IN  \A html \in ShownBoards :
                /\ Len(Get(html)) = gridSize
                /\ \A i \in 0..(gridSize - 1) :
                      /\ Len(Get(html)[i + 1]) = gridSize
                      /\ \A j \in 0..(gridSize - 1) :
                            LET td == Get(html)[i + 1][j + 1] IN
                            /\ HasClass(td, "thick-right") <=>
                                  ((j + 1) % w = 0 /\ j < gridSize - 1)
                            /\ HasClass(td, "thick-bottom") <=>
                                  ((i + 1) % h = 0 /\ i < gridSize - 1)

\* C12, its case: a puzzle of sub-grid width 2 and height 6 is shown with a
\* solution beside it
C12_Witness ==
    /\ current_solver # Absent
    /\ Get(current_solver).sub_grid_width = 2
    /\ Get(current_solver).sub_grid_height = 6
    /\ Cardinality(ShownBoards) = 2

C14_ManualGridNamespaces ==
    [][\A g \in DOMAIN manual_cell :
          g # CurrentGridSize' => manual_cell'[g] = manual_cell[g]]_vars

\* the grid of another size holds a typed value while the grid of the
\* current size has just been cleared
C14_Witness ==
    /\ "Grid cleared!" \in status
    /\ manual_cell[CurrentGridSize][1][1] = NoneCell
    /\ \E g \in DOMAIN manual_cell : g # CurrentGridSize /\ manual_cell[g][1][1] = 2

C15_FileProcessedOnce ==
    [][(uploaded_file # Absent /\ Rerender) =>
          /\ status' \cap FileMessages = {}
          /\ UNCHANGED Results]_vars

\* C16: in every state a render observes, a result the session holds is of
\* the kind of the selected solve mode: while 'Allow Multiple Solutions' is
\* ticked no single solution is held or displayed, and while it is not
\* ticked no multiple-solutions result is held or displayed.
C16_ResultMatchesMode ==
    LET shown == display_puzzle_and_results(session_state, 0) IN
    /\ allow_multiple_solutions => ~SingleHeld /\ shown.kind # "single"
    /\ ~allow_multiple_solutions => ~MultipleHeld /\ shown.kind # "multiple"

\* C17: a run in which a solve request (Single or Multiple) ended in an
\* error of the library, and nothing else was reported, leaves the active
\* puzzle and every recorded result, of either kind, with its time as they
\* were before the request.
C17_SolveErrorLeavesSession ==
    [][status' = {"Error solving puzzle"} =>
          /\ ActivePuzzle(current_solver') = ActivePuzzle(current_solver)
          /\ UNCHANGED Results]_vars

\* the signal a Multiple-mode solve raises when it stopped at the cap
ReachedCap == "Reached maximum limit"

\* C18: after a run in which a Multiple-mode solve with cap c recorded its
\* result, the session holds the multiple-solutions result with its time,
\* the number of recorded solutions is at most c, and 'Reached maximum
\* limit' is reported iff that number equals c; the run that reports the
\* limit reports no error.
C18_CapAndSignal ==
    status \cap MultipleRecorded # {} =>
        /\ multiple_solutions # Absent
        /\ multi_solve_time # Absent
        /\ Len(Get(multiple_solutions)) <= max_solutions_input
        /\ ReachedCap \in status <=>
              Len(Get(multiple_solutions)) = max_solutions_input
        /\ ReachedCap \in status => "Error solving puzzle" \notin status

\* the cap was reached and the capped result is held
C18_Witness ==
    /\ ReachedCap \in status
    /\ multiple_solutions # Absent
    /\ Len(Get(multiple_solutions)) = max_solutions_input

\* C19: a Single-mode solve of a puzzle that has no solution reports 'No
\* solution found!', which is not the error report, and after that run the
\* session holds no single solution and no solve time and the puzzle is the
\* one solved; a Single-mode solve that succeeds leaves the solution matrix
\* of the active puzzle recorded together with its elapsed time.
C19_SingleOutcomes ==
    [][/\ (ClickSolveReturning /\ ~solve(Get(current_solver))) =>
             /\ "No solution found!" \in status'
             /\ "Puzzle solved" \notin status'
       /\ "No solution found!" \in status' =>
             /\ "Error solving puzzle" \notin status'
             /\ current_solution' = Absent
             /\ solve_time' = Absent
             /\ status' \cap (CommitMessages \cup FileMessages) = {} =>
                   current_solver' = current_solver
       /\ "Puzzle solved" \in status' =>
             /\ current_solution' # Absent
             /\ Get(current_solution').of = Get(current_solver').board
             /\ solve_time' \in {Some(elapsed) : elapsed \in Times}]_vars

\* a puzzle that has no solution was solved in Single mode
C19_Witness ==
    /\ status = {"No solution found!"}
    /\ current_solver # Absent
    /\ Get(current_solver).nsol = 0
    /\ ~allow_multiple_solutions
    /\ current_solution = Absent
    /\ solve_time = Absent

\* what the Manual tab reports when it loaded the active puzzle
ManualLoaded == "Puzzle loaded into manual input!"

\* a cell of a puzzle as the manual grid holds it: 0 or None becomes None
LoadedCell(value) == IF value # NoneCell /\ value # 0 THEN value ELSE NoneCell

\* C21: after a run in which 'Load Current Puzzle' loaded the active puzzle
\* (its grid size is the manual grid's), every manual cell of the current
\* size holds the corresponding cell of the active puzzle, 0 or absent
\* being empty, whatever the grid held before; and 'Update Puzzle' pressed
\* right after that run commits a puzzle whose matrix is the matrix of the
\* puzzle that was loaded.
C21_ManualLoadCommitRoundTrip ==
    [][/\ ManualLoaded \in status' =>
             /\ current_solver' # Absent
             /\ Len(Get(current_solver').board) = CurrentGridSize'
             /\ \A i \in Indices(CurrentGridSize'), j \in Indices(CurrentGridSize') :
                   manual_cell'[CurrentGridSize'][i][j] =
                       LoadedCell(Get(current_solver').board[i][j])
       /\ (ManualLoaded \in status /\ ClickUpdateManual) =>
             /\ ManualCommitted \in status'
             /\ Get(current_solver').board = Get(current_solver).board]_vars

\* the puzzle the generator made, with its clue over a typed value of the
\* grid, was loaded and committed from the manual grid
C21_Witness ==
    /\ status = {ManualCommitted}
    /\ current_solver # Absent
    /\ Get(current_solver).board = GeneratedBoards[CurrentGridSize]
    /\ manual_cell[CurrentGridSize][1][1] = 1

\* the boards on the page, each with the table drawn from it: the puzzle
\* and, if one is shown, the solution
RenderedBoards ==
    LET shown == display_puzzle_and_results(session_state, 0) IN
    IF current_solver = Absent THEN {}
    ELSE {[board |-> Get(current_solver).board, html |-> shown.puzzle]}
         \cup (IF current_solution # Absent
                THEN {[board |-> Matrix(Get(current_solution)),
                       html |-> shown.solution]}
                ELSE IF multiple_solutions # Absent /\ Get(multiple_solutions) # <<>>
                THEN {[board |-> Matrix(Get(multiple_solutions)[1]),
                       html |-> shown.solution]}
                ELSE {})

\* how many of the classes of a rendered cell are this one
ClassCount(td, class) ==
    Cardinality({k \in 1..Len(td.classes) : td.classes[k] = class})

\* a rendered cell carries exactly one of the two styles: 'empty', showing
\* the dot, iff the value is None or 0; 'clue', showing the value, otherwise
StyledAs(td, cell) ==
    /\ ClassCount(td, "empty") + ClassCount(td, "clue") = 1
    /\ HasClass(td, "empty") <=> (cell = NoneCell \/ cell = 0)
    /\ HasClass(td, "empty") => td.display_value = <<".">>
    /\ HasClass(td, "clue") => td.display_value = str(cell)

\* C22: the table drawn from a gridSize x gridSize board has exactly
\* gridSize rows of exactly gridSize cells, every cell carries exactly one
\* of the styles 'empty' and 'clue', 'empty' iff its value is absent or 0
\* and 'clue' with the value displayed otherwise, and the cells styled
\* 'clue' are as many as count_clues counts; a cell holding 0 is drawn as
\* an absent one is.
C22_RowsCellsAndStyles ==
    /\ \A shown \in RenderedBoards :
          LET gridSize == Len(shown.board)
              table == Get(shown.html)
          IN  /\ shown.html # Absent
              /\ Len(table) = gridSize
              /\ \A i \in 1..gridSize :
                    /\ Len(table[i]) = gridSize
                    /\ \A j \in 1..gridSize :
                          StyledAs(table[i][j], shown.board[i][j])
              /\ count_clues(shown.board) =
                    Cardinality({<<i, j>> \in (1..gridSize) \X (1..gridSize) :
                                    HasClass(table[i][j], "clue")})
    /\ current_solver # Absent =>
          LET solver == Get(current_solver)
              gridSize == Len(solver.board)
          IN  \A cell \in {NoneCell, 0} \cup (1..gridSize) :
                  StyledAs(create_cell_html(0, 0, cell, gridSize,
                                            solver.sub_grid_width,
                                            solver.sub_grid_height), cell)

\* a 36 x 36 puzzle with clues 1 and 36 is shown with a solution beside it
C22_Witness ==
    /\ current_solver # Absent
    /\ Len(Get(current_solver).board) = MAX_DIM * MAX_DIM
    /\ count_clues(Get(current_solver).board) = 2
    /\ Cardinality(RenderedBoards) = 2

\* the solutions the session holds: the single one and those of the list
HeldSolutions ==
    (IF current_solution # Absent THEN {Get(current_solution)} ELSE {})
    \cup (IF multiple_solutions # Absent
           THEN {Get(multiple_solutions)[k] : k \in 1..Len(Get(multiple_solutions))}
           ELSE {})

\* C23: in every reachable state a solution the session holds (the single
\* one, or any of the multiple-solutions list) is a solution of the active
\* puzzle: a puzzle is active, the solution was computed from its board, its
\* matrix has the active puzzle's grid size, which is the product of the
\* sub-grid dimensions every board is drawn with, and the solution shown is
\* drawn as a board of that size.
C23_NoStaleResult ==
    HeldSolutions # {} =>
        /\ current_solver # Absent
        /\ LET solver == Get(current_solver)
               gridSize == solver.sub_grid_width * solver.sub_grid_height
           IN  /\ Len(solver.board) = gridSize
               /\ \A solution \in HeldSolutions :
                     /\ solution.of = solver.board
                     /\ Len(Matrix(solution)) = gridSize
               /\ \A shown \in RenderedBoards :
                     /\ Len(shown.board) = gridSize
                     /\ Len(Get(shown.html)) = gridSize

\* two solutions are held for a puzzle that replaced a generated one
C23_Witness ==
    /\ multiple_solutions # Absent
    /\ Len(Get(multiple_solutions)) = 2
    /\ generated_difficulty # Absent
    /\ current_solver # Absent
    /\ Get(current_solver).board # GeneratedBoards[Len(Get(current_solver).board)]

\* C24: in every reachable state the single solution is held iff its solve
\* time is held, the multiple-solutions list is held iff its search time is
\* held, and a result is held only while a puzzle is active; so the page
\* shows a time that is present whenever it shows a result with a time, and
\* the average time per solution is computed iff the list shown is not
\* empty, with the number of solutions, not 0, as divisor.
C24_ResultTimingPairing ==
    /\ current_solution # Absent <=> solve_time # Absent
    /\ multiple_solutions # Absent <=> multi_solve_time # Absent
    /\ (SingleHeld \/ MultipleHeld) => current_solver # Absent
    /\ LET shown == display_puzzle_and_results(session_state, 0) IN
       /\ shown.kind = "single" =>
             shown.time # Absent /\ Get(shown.time) \in Times
       /\ shown.kind = "multiple" =>
             LET statistics == search_statistics(session_state) IN
             /\ statistics # Absent <=> Get(multiple_solutions) # <<>>
             /\ statistics # Absent =>
                   /\ shown.time # Absent
                   /\ Get(statistics).search_time \in Times
                   /\ Get(statistics).avg_time.denominator =
                         Len(Get(multiple_solutions))
                   /\ Get(statistics).avg_time.denominator > 0

\* a search that found nothing is recorded: an empty list with its time
C24_Witness ==
    /\ multiple_solutions = Some(<<>>)
    /\ multi_solve_time # Absent
    /\ display_puzzle_and_results(session_state, 0).kind = "multiple"
    /\ search_statistics(session_state) = Absent
====
